---- MODULE Spec2Model ----
(***************************************************************************)
(* Solar Plant Efficiency Analyzer (src/app.py).                           *)
(*                                                                         *)
(* One Streamlit script run per session: the "Generate Report" handler     *)
(* reads two CSV uploads, merges them on "Month", derives expected         *)
(* generation and efficiency ratios, plots two charts, and writes a PDF    *)
(* (header, per-month table with page breaks, two chart images saved to    *)
(* fixed paths under /tmp) that is then offered for download.              *)
(*                                                                         *)
(* Numbers: a float is modelled by the exact rational it stands for, as a  *)
(* reduced fraction [num, den] with den > 0, or by a non-finite value with *)
(* den = 0 (num = 1: inf, num = -1: -inf, num = 0: nan), the results numpy *)
(* gives for a division by zero.  Binary rounding error is not modelled.   *)
(* Lengths on the page are in units of 1/127 pt, in which A4 is integral.  *)
(***************************************************************************)
EXTENDS Integers, Sequences, FiniteSets, TLC

(***************************************************************************)
(* Bounds of the model.                                                    *)
(***************************************************************************)
\* longest small dataset (rows with unique periods drawn from Periods)
MaxLen == 3
\* longest generated dataset, enough for two page breaks of the table
MaxRows == 77

Sessions == {"s1", "s2"}

(***************************************************************************)
(* Floats as rationals.                                                    *)
(***************************************************************************)
Abs(n) == IF n < 0 THEN -n ELSE n

RECURSIVE Gcd(_, _)
Gcd(a, b) == IF b = 0 THEN a ELSE Gcd(b, a % b)

Sign(n) == IF n > 0 THEN 1 ELSE IF n < 0 THEN -1 ELSE 0

\* the float n/d; d = 0 gives inf, -inf or nan as numpy's true division does
Frac(n, d) ==
    IF d = 0 THEN [num |-> Sign(n), den |-> 0]
    ELSE LET g == Gcd(Abs(n), Abs(d))
             sg == Sign(d)
         IN  [num |-> sg * (n \div g), den |-> sg * (d \div g)]

IsFinite(r) == r.den # 0
IsNan(r) == r.den = 0 /\ r.num = 0

FMul(a, b) ==
    IF IsFinite(a) /\ IsFinite(b) THEN Frac(a.num * b.num, a.den * b.den)
    ELSE IF IsNan(a) \/ IsNan(b) \/ a.num = 0 \/ b.num = 0
         THEN [num |-> 0, den |-> 0]
         ELSE [num |-> Sign(a.num) * Sign(b.num), den |-> 0]

FDiv(a, b) ==
    IF IsFinite(a) /\ IsFinite(b) THEN Frac(a.num * b.den, a.den * b.num)
    ELSE IF IsNan(a) \/ IsNan(b) \/ (~IsFinite(a) /\ ~IsFinite(b))
         THEN [num |-> 0, den |-> 0]
         ELSE IF IsFinite(a) THEN [num |-> 0, den |-> 1]
         ELSE [num |-> a.num * (IF b.num < 0 THEN -1 ELSE 1), den |-> 0]

FAdd(a, b) ==
    IF IsFinite(a) /\ IsFinite(b)
    THEN Frac(a.num * b.den + b.num * a.den, a.den * b.den)
    ELSE IF IsNan(a) \/ IsNan(b) \/ (~IsFinite(a) /\ ~IsFinite(b) /\ a.num # b.num)
         THEN [num |-> 0, den |-> 0]
         ELSE IF IsFinite(a) THEN b ELSE a

FLess(a, b) == IsFinite(a) /\ IsFinite(b) /\ a.num * b.den < b.num * a.den

\* np.clip(x, 0, 1): nan stays nan, the infinities are clipped
Clip01(x) ==
    IF IsNan(x) THEN x
    ELSE IF ~IsFinite(x) THEN (IF x.num > 0 THEN Frac(1, 1) ELSE Frac(0, 1))
    ELSE IF FLess(x, Frac(0, 1)) THEN Frac(0, 1)
    ELSE IF FLess(Frac(1, 1), x) THEN Frac(1, 1) ELSE x

RECURSIVE Pow10(_)
Pow10(d) == IF d = 0 THEN 1 ELSE 10 * Pow10(d - 1)

\* n/d rounded to the nearest integer, ties to even (d > 0)
RoundHalfEven(n, d) ==
    LET q == n \div d
        r == n % d
    IN  IF 2 * r < d THEN q
        ELSE IF 2 * r > d THEN q + 1
        ELSE IF q % 2 = 0 THEN q ELSE q + 1

\* f"{x:.<dec>f}": the digits of x rounded to dec decimals, or inf / nan
Format(x, dec) ==
    IF IsFinite(x)
    THEN [fin |-> TRUE, val |-> RoundHalfEven(x.num * Pow10(dec), x.den), dec |-> dec]
    ELSE [fin |-> FALSE, val |-> x.num, dec |-> dec]

(***************************************************************************)
(* Inputs: the sidebar widgets and the two uploaded files.                 *)
(***************************************************************************)
Periods == {"Jan", "jan", "Feb"}

\* the value the uploaded sheets hold for a period
IrradianceOf(m) ==
    CASE m = "Jan" -> 150 [] m = "Feb" -> 160 [] m = "jan" -> 0 [] OTHER -> 5

ActualOf(m) ==
    CASE m = "Jan" -> 500 [] m = "Feb" -> 520 [] m = "jan" -> 0 [] OTHER -> 4

Columns == {"Month", "Irradiance", "ActualGeneration"}

CsvRow(cols, m) ==
    [col \in cols |->
        CASE col = "Irradiance" -> IrradianceOf(m)
          [] col = "ActualGeneration" -> ActualOf(m)
          [] OTHER -> m]

\* an uploaded CSV with header cols and one row per period of months
CsvFile(cols, months) ==
    [kind |-> "csv", cols |-> cols,
     rows |-> [i \in 1..Len(months) |-> CsvRow(cols, months[i])]]

\* no upload (file_uploader returns None)
NoFile == [kind |-> "none", cols |-> {}, rows |-> <<>>]
\* an upload pd.read_csv cannot parse (e.g. an empty file)
BadFile == [kind |-> "bad", cols |-> {}, rows |-> <<>>]

IsInjective(q) == \A i, j \in DOMAIN q : q[i] = q[j] => i = j

\* the sequences of at most n distinct periods
UniqueSeqs(n) ==
    {q \in UNION {[1..k -> Periods] : k \in 0..n} : IsInjective(q)}

\* n generated periods "M1" .. "Mn"
LongMonths(n) == [i \in 1..n |-> "M" \o ToString(i)]

PanelConfig(eff, n, len, wid) ==
    [efficiency |-> eff, num_panels |-> n, length |-> len, width |-> wid]

\* the widget defaults (lines 22-27): 18 %, 10 panels, 1.6 m x 1.0 m
DefaultConfig == PanelConfig(Frac(18, 1), 10, Frac(16, 10), Frac(1, 1))

Configs ==
    {DefaultConfig,
     PanelConfig(Frac(0, 1), 10, Frac(16, 10), Frac(1, 1)),
     PanelConfig(Frac(25, 1), 3, Frac(2, 1), Frac(3, 2))}

Input(btn, cfg, irr, gen) ==
    [button |-> btn, config |-> cfg, irradiance_file |-> irr, generation_file |-> gen]

\* a session whose user does not press the button
Absent == Input(FALSE, DefaultConfig, NoFile, NoFile)

\* well-formed sheets over every pair of small datasets and every config
DataInputs ==
    {Input(TRUE, cfg, CsvFile({"Month", "Irradiance"}, mi),
                      CsvFile({"Month", "ActualGeneration"}, mg)) :
        cfg \in Configs, mi \in UniqueSeqs(MaxLen), mg \in UniqueSeqs(MaxLen)}

\* every choice of header columns, and missing or unparsable uploads
ColumnInputs ==
    {Input(TRUE, DefaultConfig, fi, fg) :
        fi \in {NoFile, BadFile} \cup {CsvFile(cs, <<"Jan", "Feb">>) : cs \in SUBSET Columns},
        fg \in {NoFile, BadFile} \cup {CsvFile(cs, <<"Feb", "Jan">>) : cs \in SUBSET Columns}}

\* long tables: n common periods
LongInputs ==
    {Input(TRUE, DefaultConfig, CsvFile({"Month", "Irradiance"}, LongMonths(n)),
                                CsvFile({"Month", "ActualGeneration"}, LongMonths(n))) :
        n \in 0..MaxRows}

SingleInputs == DataInputs \cup ColumnInputs \cup LongInputs

\* two users with their own sheets pressing the button at the same time
ParInputs ==
    {Input(TRUE, DefaultConfig, CsvFile({"Month", "Irradiance"}, mi),
                                CsvFile({"Month", "ActualGeneration"}, mi)) :
        mi \in {<<"Jan">>, <<"Jan", "Feb">>}}

(***************************************************************************)
(* pandas: merge, column access.                                           *)
(***************************************************************************)
NoFrame == [cols |-> {}, rows |-> <<>>]

\* pd.read_csv of a parsable upload
read_csv(file) == [cols |-> file.cols, rows |-> file.rows]

\* name of a non-key column of the left / right frame in the merged frame
LeftName(col, rcols) == IF col \in rcols THEN col \o "_x" ELSE col
RightName(col, lcols) == IF col \in lcols THEN col \o "_y" ELSE col

MergedCols(lcols, rcols) ==
    {"Month"} \cup {LeftName(col, rcols) : col \in lcols \ {"Month"}}
              \cup {RightName(col, lcols) : col \in rcols \ {"Month"}}

MergeRow(l, r, lcols, rcols) ==
    [name \in MergedCols(lcols, rcols) |->
        IF name = "Month" THEN l["Month"]
        ELSE IF \E col \in lcols \ {"Month"} : LeftName(col, rcols) = name
             THEN l[CHOOSE col \in lcols \ {"Month"} : LeftName(col, rcols) = name]
             ELSE r[CHOOSE col \in rcols \ {"Month"} : RightName(col, lcols) = name]]

\* the right rows matching one left row, in the right frame's order
Matches(l, right, lcols, rcols) ==
    LET Same(r) == r["Month"] = l["Month"]
        hit == SelectSeq(right, Same)
    IN  [k \in 1..Len(hit) |-> MergeRow(l, hit[k], lcols, rcols)]

\* the merged rows of left rows lo..hi, in order
RECURSIVE JoinRange(_, _, _, _, _, _)
JoinRange(lo, hi, left, right, lcols, rcols) ==
    IF lo > hi THEN <<>>
    ELSE IF lo = hi THEN Matches(left[lo], right, lcols, rcols)
    ELSE LET mid == (lo + hi) \div 2
         IN  JoinRange(lo, mid, left, right, lcols, rcols)
               \o JoinRange(mid + 1, hi, left, right, lcols, rcols)

\* the merged rows of right rows lo..hi, in the right frame's order
RECURSIVE JoinRangeByRight(_, _, _, _, _, _)
JoinRangeByRight(lo, hi, left, right, lcols, rcols) ==
    IF lo > hi THEN <<>>
    ELSE IF lo = hi
         THEN LET Same(l) == l["Month"] = right[lo]["Month"]
                  hit == SelectSeq(left, Same)
              IN  [k \in 1..Len(hit) |-> MergeRow(hit[k], right[lo], lcols, rcols)]
    ELSE LET mid == (lo + hi) \div 2
         IN  JoinRangeByRight(lo, mid, left, right, lcols, rcols)
               \o JoinRangeByRight(mid + 1, hi, left, right, lcols, rcols)

\* fault: the join keeps the right frame's key order (how="right" on unique keys)
merge_right_order(left, right) ==
    [cols |-> MergedCols(left.cols, right.cols),
     rows |-> JoinRangeByRight(1, Len(right.rows), left.rows, right.rows,
                               left.cols, right.cols)]

\* pd.merge(left, right, on="Month"): inner join, left key order kept
merge(left, right) ==
    [cols |-> MergedCols(left.cols, right.cols),
     rows |-> JoinRange(1, Len(left.rows), left.rows, right.rows, left.cols, right.cols)]

\* df[name] = vals: the column is added to (or replaced in) every row
WithColumn(frame, name, vals) ==
    [cols |-> frame.cols \cup {name},
     rows |-> [k \in 1..Len(frame.rows) |->
                 [col \in frame.cols \cup {name} |->
                     IF col = name THEN vals[k] ELSE frame.rows[k][col]]]]

\* df[name] as a sequence of values
Column(frame, name) == [i \in 1..Len(frame.rows) |-> frame.rows[i][name]]

\* the sum of vals[lo..hi]
RECURSIVE SumRange(_, _, _)
SumRange(vals, lo, hi) ==
    IF lo > hi THEN Frac(0, 1)
    ELSE IF lo = hi THEN vals[lo]
    ELSE LET mid == (lo + hi) \div 2
         IN  FAdd(SumRange(vals, lo, mid), SumRange(vals, mid + 1, hi))

\* Series.sum() of a sequence of floats; the empty sum is 0.0
Sum(vals) == SumRange(vals, 1, Len(vals))

(***************************************************************************)
(* The page and what is drawn on it.                                       *)
(***************************************************************************)
\* n points, in units of 1/127 pt
Pt(n) == n * 127
\* A4 = (210 mm, 297 mm), 1 mm = 360/127 pt: height = 841.89 pt
height == 297 * 360

NoChart == [kind |-> "none", x |-> <<>>, series |-> <<>>]

Text(at, txt, vals) == [op |-> "text", y |-> at, txt |-> txt, vals |-> vals, img |-> NoChart]
Rule(at) == [op |-> "line", y |-> at, txt |-> "", vals |-> <<>>, img |-> NoChart]
\* an image of 500 x 300 pt whose bottom edge is at `at`
Image(at, path, chart) == [op |-> "image", y |-> at, txt |-> path, vals |-> <<>>, img |-> chart]

img_path == "/tmp/solar_generation_chart.png"
img_path_eff == "/tmp/efficiency_chart.png"

VARIABLES
    widgets,         \* per session: button pressed, panel configuration, uploads
    pc,              \* per session: position in the script
    panel_area,      \* length * width
    irradiance_df, generation_df, df,
    total_expected, total_actual, overall_eff,
    fig, fig_eff,    \* the two matplotlib figures
    c,               \* the reportlab canvas: finished pages and the open page
    y,               \* vertical cursor
    i,               \* index of the next row of the table loop
    pdf_data,        \* bytes of the saved document
    shown,           \* what the page has shown, in order
    download,        \* the data behind the download button, if offered
    stages,          \* the stages completed, in order
    tmp              \* files under /tmp, shared by all sessions

inputs == <<widgets, panel_area>>
frames == <<irradiance_df, generation_df, df>>
totals == <<total_expected, total_actual, overall_eff>>
figs == <<fig, fig_eff>>
doc == <<c, y, i, pdf_data>>
vars == <<widgets, pc, panel_area, irradiance_df, generation_df, df, total_expected,
          total_actual, overall_eff, fig, fig_eff, c, y, i, pdf_data, shown,
          download, stages, tmp>>

\* the state of the sessions before any handler runs, given their inputs
Start(inp) ==
    /\ widgets = inp
    /\ pc = [s \in Sessions |-> "idle"]
    /\ panel_area = [s \in Sessions |-> FMul(inp[s].config.length, inp[s].config.width)]
    /\ irradiance_df = [s \in Sessions |-> NoFrame]
    /\ generation_df = [s \in Sessions |-> NoFrame]
    /\ df = [s \in Sessions |-> NoFrame]
    /\ total_expected = [s \in Sessions |-> Frac(0, 1)]
    /\ total_actual = [s \in Sessions |-> Frac(0, 1)]
    /\ overall_eff = [s \in Sessions |-> Frac(0, 1)]
    /\ fig = [s \in Sessions |-> NoChart]
    /\ fig_eff = [s \in Sessions |-> NoChart]
    /\ c = [s \in Sessions |-> [pages |-> <<>>, page |-> <<>>]]
    /\ y = [s \in Sessions |-> 0]
    /\ i = [s \in Sessions |-> 1]
    /\ pdf_data = [s \in Sessions |-> <<>>]
    /\ shown = [s \in Sessions |-> <<>>]
    /\ download = [s \in Sessions |-> <<>>]
    /\ stages = [s \in Sessions |-> <<>>]
    /\ tmp = [path \in {img_path, img_path_eff} |-> NoChart]

\* one user presses the button; the other session stays idle
Init == \E inp \in SingleInputs :
            Start([s \in Sessions |-> IF s = "s1" THEN inp ELSE Absent])

\* two users press the button
InitPar == \E inp \in [Sessions -> ParInputs] : Start(inp)

Goto(s, label) == pc' = [pc EXCEPT ![s] = label]
Show(s, what) == shown' = [shown EXCEPT ![s] = Append(@, what)]
Completed(s, stage) == stages' = [stages EXCEPT ![s] = Append(@, stage)]

\* fault: the handler reports the error and carries on to the download
Except_and_continue(s) == Goto(s, "download") /\ Show(s, "error")

\* except Exception as e: st.error(...)
Except(s) == Goto(s, "done") /\ Show(s, "error")

(***************************************************************************)
(* The "Generate Report" handler, step by step.                            *)
(***************************************************************************)
\* if st.button(...): if irradiance_file and generation_file: ... else: st.warning
GenerateReport(s) ==
    /\ pc[s] = "idle"
    /\ widgets[s].button
    /\ IF widgets[s].irradiance_file.kind # "none" /\ widgets[s].generation_file.kind # "none"
       THEN Goto(s, "read") /\ UNCHANGED shown
       ELSE Goto(s, "done") /\ Show(s, "warning")
    /\ UNCHANGED <<inputs, frames, totals, figs, doc, download, stages, tmp>>

ReadCsv(s) ==
    /\ pc[s] = "read"
    /\ IF widgets[s].irradiance_file.kind = "csv" /\ widgets[s].generation_file.kind = "csv"
       THEN /\ irradiance_df' = [irradiance_df EXCEPT ![s] = read_csv(widgets[s].irradiance_file)]
            /\ generation_df' = [generation_df EXCEPT ![s] = read_csv(widgets[s].generation_file)]
            /\ Goto(s, "check")
            /\ UNCHANGED shown
       ELSE Except(s) /\ UNCHANGED <<irradiance_df, generation_df>>
    /\ UNCHANGED <<inputs, df, totals, figs, doc, download, stages, tmp>>

\* if "Month" not in irradiance_df.columns or "Month" not in generation_df.columns
CheckMonth(s) ==
    /\ pc[s] = "check"
    /\ IF "Month" \notin irradiance_df[s].cols \/ "Month" \notin generation_df[s].cols
       THEN Goto(s, "done") /\ Show(s, "error") /\ UNCHANGED stages
       ELSE Goto(s, "merge") /\ Completed(s, "load") /\ UNCHANGED shown
    /\ UNCHANGED <<inputs, frames, totals, figs, doc, download, tmp>>

Merge(s) ==
    /\ pc[s] = "merge"
    /\ df' = [df EXCEPT ![s] = merge(irradiance_df[s], generation_df[s])]
    /\ Goto(s, "expected")
    /\ UNCHANGED <<inputs, irradiance_df, generation_df, totals, figs, doc, shown,
                   download, stages, tmp>>

\* (efficiency / 100) * num_panels * panel_area * irradiance
Expected(s, irradiance) ==
    FMul(FMul(FMul(FDiv(widgets[s].config.efficiency, Frac(100, 1)),
                   Frac(widgets[s].config.num_panels, 1)),
              panel_area[s]),
         Frac(irradiance, 1))

\* df["ExpectedGeneration"] = ...; a missing "Irradiance" column is a KeyError
ComputeExpected(s) ==
    /\ pc[s] = "expected"
    /\ IF "Irradiance" \in df[s].cols
       THEN LET irr == Column(df[s], "Irradiance")
                vals == [k \in 1..Len(irr) |-> Expected(s, irr[k])]
            IN  /\ df' = [df EXCEPT ![s] = WithColumn(@, "ExpectedGeneration", vals)]
                /\ Goto(s, "monthly")
                /\ UNCHANGED shown
       ELSE Except(s) /\ UNCHANGED df
    /\ UNCHANGED <<inputs, irradiance_df, generation_df, totals, figs, doc, download,
                   stages, tmp>>

\* (actual / expected) * 100
Monthly(actual, expected) == FMul(FDiv(Frac(actual, 1), expected), Frac(100, 1))

ComputeMonthly(s) ==
    /\ pc[s] = "monthly"
    /\ IF "ActualGeneration" \in df[s].cols
       THEN LET act == Column(df[s], "ActualGeneration")
                exp == Column(df[s], "ExpectedGeneration")
                vals == [k \in 1..Len(act) |-> Monthly(act[k], exp[k])]
            IN  /\ df' = [df EXCEPT ![s] = WithColumn(@, "MonthlyEfficiency", vals)]
                /\ Goto(s, "totals")
                /\ UNCHANGED shown
       ELSE Except(s) /\ UNCHANGED df
    /\ UNCHANGED <<inputs, irradiance_df, generation_df, totals, figs, doc, download,
                   stages, tmp>>

AsFloats(vals) == [k \in 1..Len(vals) |-> Frac(vals[k], 1)]

\* (total_actual / total_expected) * 100
Overall(actual, expected) == FMul(FDiv(actual, expected), Frac(100, 1))

\* fault: the overall efficiency taken as df["MonthlyEfficiency"].mean()
ComputeTotals_mean(s) ==
    /\ pc[s] = "totals"
    /\ LET expected == Sum(Column(df[s], "ExpectedGeneration"))
           actual == Sum(AsFloats(Column(df[s], "ActualGeneration")))
           monthly == Column(df[s], "MonthlyEfficiency")
       IN  /\ total_expected' = [total_expected EXCEPT ![s] = expected]
           /\ total_actual' = [total_actual EXCEPT ![s] = actual]
           /\ overall_eff' = [overall_eff EXCEPT ![s] =
                                FDiv(Sum(monthly), Frac(Len(monthly), 1))]
    /\ Goto(s, "plot")
    /\ Completed(s, "compute")
    /\ UNCHANGED <<inputs, frames, figs, doc, shown, download, tmp>>

ComputeTotals(s) ==
    /\ pc[s] = "totals"
    /\ LET expected == Sum(Column(df[s], "ExpectedGeneration"))
           actual == Sum(AsFloats(Column(df[s], "ActualGeneration")))
       IN  /\ total_expected' = [total_expected EXCEPT ![s] = expected]
           /\ total_actual' = [total_actual EXCEPT ![s] = actual]
           /\ overall_eff' = [overall_eff EXCEPT ![s] = Overall(actual, expected)]
    /\ Goto(s, "plot")
    /\ Completed(s, "compute")
    /\ UNCHANGED <<inputs, frames, figs, doc, shown, download, tmp>>

\* plt.cm.RdYlGn_r(np.clip(efficiency / 100, 0, 1)): the position on the gradient
BarColor(eff) == Clip01(FDiv(eff, Frac(100, 1)))

\* lines 54-77: expected and actual bars per month, the actual bar coloured
PlotGeneration(s) ==
    /\ pc[s] = "plot"
    /\ LET eff == Column(df[s], "MonthlyEfficiency")
       IN  fig' = [fig EXCEPT ![s] =
                     [kind |-> "generation",
                      x |-> Column(df[s], "Month"),
                      series |-> <<Column(df[s], "ExpectedGeneration"),
                                   AsFloats(Column(df[s], "ActualGeneration")),
                                   [k \in 1..Len(eff) |-> BarColor(eff[k])]>>]]
    /\ Goto(s, "plot_eff")
    /\ Show(s, "pyplot")
    /\ UNCHANGED <<inputs, frames, totals, fig_eff, doc, download, stages, tmp>>

\* lines 80-88: the monthly efficiency line
PlotEfficiency(s) ==
    /\ pc[s] = "plot_eff"
    /\ fig_eff' = [fig_eff EXCEPT ![s] =
                     [kind |-> "efficiency",
                      x |-> Column(df[s], "Month"),
                      series |-> <<Column(df[s], "MonthlyEfficiency")>>]]
    /\ Goto(s, "header")
    /\ Show(s, "pyplot")
    /\ Completed(s, "render")
    /\ UNCHANGED <<inputs, frames, totals, fig, doc, download, tmp>>

\* the text lines above the table: <<text, formatted values, cursor step after it>>
HeaderLines(s) ==
    << <<"Solar Efficiency Report", <<>>, 30>>,
       <<"Plant Name", <<>>, 15>>,
       <<"Project Code", <<>>, 15>>,
       <<"Address", <<>>, 30>>,
       <<"Panel Power", <<>>, 15>>,
       <<"Panel Efficiency", <<>>, 15>>,
       <<"Number of Panels", <<>>, 15>>,
       <<"Panel Area", <<Format(panel_area[s], 2)>>, 30>>,
       <<"Total Expected Generation", <<Format(total_expected[s], 2)>>, 15>>,
       <<"Total Actual Generation", <<Format(total_actual[s], 2)>>, 15>>,
       <<"Overall Efficiency", <<Format(overall_eff[s], 2)>>, 30>>,
       <<"Monthly Details:", <<>>, 20>>,
       <<"Month | Irradiance | Expected | Actual | Efficiency", <<>>, 15>> >>

\* cursor before line k when the first line is drawn at y0
RECURSIVE CursorAt(_, _, _)
CursorAt(lines, y0, k) ==
    IF k = 1 THEN y0 ELSE CursorAt(lines, y0, k - 1) - Pt(lines[k - 1][3])

\* lines 91-131: canvas, title, metadata, configuration, totals, table header, rule
PdfHeader(s) ==
    /\ pc[s] = "header"
    /\ LET lines == HeaderLines(s)
           n == Len(lines)
           rule == CursorAt(lines, height - Pt(40), n + 1)
       IN  /\ c' = [c EXCEPT ![s] =
                     [pages |-> <<>>,
                      page |-> [k \in 1..n |->
                                   Text(CursorAt(lines, height - Pt(40), k),
                                        lines[k][1], lines[k][2])]
                               \o <<Rule(rule)>>]]
           /\ y' = [y EXCEPT ![s] = rule - Pt(10)]
    /\ i' = [i EXCEPT ![s] = 1]
    /\ Goto(s, IF Len(df[s].rows) = 0 THEN "savefig" ELSE "table")
    /\ UNCHANGED <<inputs, frames, totals, figs, pdf_data, shown, download, stages, tmp>>

\* fault: the open page is discarded instead of being kept
showPage_discarding(canvas) == [pages |-> canvas.pages, page |-> <<>>]

\* c.showPage(): the open page is finished and a new one begun
showPage(canvas) == [pages |-> Append(canvas.pages, canvas.page), page |-> <<>>]

drawOn(canvas, item) == [canvas EXCEPT !.page = Append(@, item)]

\* the f-string of line 134
RowLine(at, row) ==
    Text(at, row["Month"],
         <<Format(Frac(row["Irradiance"], 1), 1), Format(row["ExpectedGeneration"], 1),
           Format(Frac(row["ActualGeneration"], 1), 1), Format(row["MonthlyEfficiency"], 1)>>)

\* fault: the margin is tested on the cursor before it is moved down
TableRow_test_before_step(s) ==
    /\ pc[s] = "table"
    /\ i[s] <= Len(df[s].rows)
    /\ LET drawn == drawOn(c[s], RowLine(y[s], df[s].rows[i[s]]))
           below == y[s] - Pt(15)
       IN  IF y[s] < Pt(100)
           THEN /\ c' = [c EXCEPT ![s] = showPage(drawn)]
                /\ y' = [y EXCEPT ![s] = height - Pt(50)]
           ELSE /\ c' = [c EXCEPT ![s] = drawn]
                /\ y' = [y EXCEPT ![s] = below]
    /\ i' = [i EXCEPT ![s] = @ + 1]
    /\ Goto(s, IF i[s] = Len(df[s].rows) THEN "savefig" ELSE "table")
    /\ UNCHANGED <<inputs, frames, totals, figs, pdf_data, shown, download, stages, tmp>>

\* one pass of the loop of lines 133-139
TableRow(s) ==
    /\ pc[s] = "table"
    /\ i[s] <= Len(df[s].rows)
    /\ LET drawn == drawOn(c[s], RowLine(y[s], df[s].rows[i[s]]))
           below == y[s] - Pt(15)
       IN  IF below < Pt(100)
           THEN /\ c' = [c EXCEPT ![s] = showPage(drawn)]
                /\ y' = [y EXCEPT ![s] = height - Pt(50)]
           ELSE /\ c' = [c EXCEPT ![s] = drawn]
                /\ y' = [y EXCEPT ![s] = below]
    /\ i' = [i EXCEPT ![s] = @ + 1]
    /\ Goto(s, IF i[s] = Len(df[s].rows) THEN "savefig" ELSE "table")
    /\ UNCHANGED <<inputs, frames, totals, figs, pdf_data, shown, download, stages, tmp>>

\* fig.savefig(img_path); writing under /tmp may fail (OSError)
SaveFig(s) ==
    /\ pc[s] = "savefig"
    /\ \E written \in BOOLEAN :
          IF written
          THEN /\ tmp' = [tmp EXCEPT ![img_path] = fig[s]]
               /\ Goto(s, "image")
               /\ UNCHANGED shown
          ELSE Except(s) /\ UNCHANGED tmp
    /\ UNCHANGED <<inputs, frames, totals, figs, doc, download, stages>>

\* c.drawImage(img_path, 50, y-400, width=500, height=300); y -= 400
DrawImage(s) ==
    /\ pc[s] = "image"
    /\ c' = [c EXCEPT ![s] = drawOn(@, Image(y[s] - Pt(400), img_path, tmp[img_path]))]
    /\ y' = [y EXCEPT ![s] = @ - Pt(400)]
    /\ Goto(s, "savefig_eff")
    /\ UNCHANGED <<inputs, frames, totals, figs, i, pdf_data, shown, download, stages, tmp>>

SaveFigEff(s) ==
    /\ pc[s] = "savefig_eff"
    /\ \E written \in BOOLEAN :
          IF written
          THEN /\ tmp' = [tmp EXCEPT ![img_path_eff] = fig_eff[s]]
               /\ Goto(s, "image_eff")
               /\ UNCHANGED shown
          ELSE Except(s) /\ UNCHANGED tmp
    /\ UNCHANGED <<inputs, frames, totals, figs, doc, download, stages>>

DrawImageEff(s) ==
    /\ pc[s] = "image_eff"
    /\ c' = [c EXCEPT ![s] = drawOn(@, Image(y[s] - Pt(400), img_path_eff, tmp[img_path_eff]))]
    /\ y' = [y EXCEPT ![s] = @ - Pt(400)]
    /\ Goto(s, "save")
    /\ UNCHANGED <<inputs, frames, totals, figs, i, pdf_data, shown, download, stages, tmp>>

\* c.save(): the open page, if anything is on it, is finished first
save(canvas) == IF canvas.page # <<>> THEN showPage(canvas) ELSE canvas

\* lines 152-154
Save(s) ==
    /\ pc[s] = "save"
    /\ c' = [c EXCEPT ![s] = save(@)]
    /\ pdf_data' = [pdf_data EXCEPT ![s] = save(c[s]).pages]
    /\ Goto(s, "download")
    /\ Show(s, "success")
    /\ Completed(s, "build")
    /\ UNCHANGED <<inputs, frames, totals, figs, y, i, download, tmp>>

\* st.download_button(data=pdf_data, ...)
Download(s) ==
    /\ pc[s] = "download"
    /\ download' = [download EXCEPT ![s] = <<pdf_data[s]>>]
    /\ Goto(s, "done")
    /\ Completed(s, "deliver")
    /\ UNCHANGED <<inputs, frames, totals, figs, doc, shown, tmp>>

Next ==
    \E s \in Sessions :
        \/ GenerateReport(s)
        \/ ReadCsv(s)
        \/ CheckMonth(s)
        \/ Merge(s)
        \/ ComputeExpected(s)
        \/ ComputeMonthly(s)
        \/ ComputeTotals(s)
        \/ PlotGeneration(s)
        \/ PlotEfficiency(s)
        \/ PdfHeader(s)
        \/ TableRow(s)
        \/ SaveFig(s)
        \/ DrawImage(s)
        \/ SaveFigEff(s)
        \/ DrawImageEff(s)
        \/ Save(s)
        \/ Download(s)

Spec == Init /\ [][Next]_vars

SpecPar == InitPar /\ [][Next]_vars

(***************************************************************************)
(* Vocabulary of the properties.                                           *)
(***************************************************************************)
Range(q) == {q[k] : k \in DOMAIN q}

RECURSIVE Concat(_)
Concat(seqs) == IF seqs = <<>> THEN <<>> ELSE Head(seqs) \o Concat(Tail(seqs))

\* everything drawn so far, page after page
AllOps(s) == Concat(c[s].pages) \o c[s].page

IsRowOp(o) == o.op = "text" /\ Len(o.vals) = 4
IsImageOp(o) == o.op = "image"

\* the month labels of the table lines drawn so far, in drawing order
DrawnMonths(s) ==
    LET rows == SelectSeq(AllOps(s), IsRowOp)
    IN  [k \in 1..Len(rows) |-> rows[k].txt]

PageCount(s) == Len(c[s].pages) + (IF c[s].page = <<>> THEN 0 ELSE 1)

\* the merge of line 45 has just run
JustMerged(s) == pc[s] = "expected"
\* the merge of line 45 has run
Merged(s) == stages[s] # <<>> /\ pc[s] # "merge"
\* lines 46-51 have run
Computed(s) == "compute" \in Range(stages[s])
\* the header of the document is drawn (line 131 passed)
TableBegun(s) == "render" \in Range(stages[s]) /\ pc[s] # "header"
\* the table loop has ended
TableEnded(s) == TableBegun(s) /\ pc[s] # "table"

RECURSIVE SumIntsRange(_, _, _)
SumIntsRange(q, lo, hi) ==
    IF lo > hi THEN 0
    ELSE IF lo = hi THEN q[lo]
    ELSE LET mid == (lo + hi) \div 2
         IN  SumIntsRange(q, lo, mid) + SumIntsRange(q, mid + 1, hi)

SumInts(q) == SumIntsRange(q, 1, Len(q))

\* rows the first page takes: drawn from height - 310 pt down to 100 pt, 15 pt apart
FirstPageCapacity == ((height - Pt(310) - Pt(100)) \div Pt(15)) + 1

(***************************************************************************)
(* C1.  Join on "Month": for inputs with unique periods, the merged rows   *)
(* are exactly the irradiance rows whose period (exact string) also occurs *)
(* in the generation data, in the irradiance data's order; their number is *)
(* the number of common periods; each merged row carries the values of the *)
(* two source rows of its period.                                          *)
(***************************************************************************)
JoinIsInnerInLeftOrder ==
    \A s \in Sessions :
        LET im == Column(irradiance_df[s], "Month")
            gm == Column(generation_df[s], "Month")
            InGen(m) == m \in Range(gm)
        IN  (JustMerged(s) /\ IsInjective(im) /\ IsInjective(gm)) =>
              /\ Column(df[s], "Month") = SelectSeq(im, InGen)
              /\ Len(df[s].rows) = Cardinality(Range(im) \cap Range(gm))
              /\ \A k \in 1..Len(df[s].rows) :
                    LET m == df[s].rows[k]["Month"]
                        a == CHOOSE n \in 1..Len(im) : im[n] = m
                        b == CHOOSE n \in 1..Len(gm) : gm[n] = m
                    IN  /\ \A col \in irradiance_df[s].cols \ generation_df[s].cols :
                              df[s].rows[k][col] = irradiance_df[s].rows[a][col]
                        /\ \A col \in generation_df[s].cols \ irradiance_df[s].cols :
                              df[s].rows[k][col] = generation_df[s].rows[b][col]

\* three irradiance periods, two of them common, listed in another order in the
\* generation data, one differing from a generation period only by case
JoinWitness ==
    \E s \in Sessions :
        LET im == Column(irradiance_df[s], "Month")
            gm == Column(generation_df[s], "Month")
        IN  /\ JustMerged(s)
            /\ Len(im) = 3 /\ Len(gm) = 2
            /\ Len(df[s].rows) = 2
            /\ Column(df[s], "Month") = <<gm[2], gm[1]>>
            /\ "jan" \in Range(im) /\ "Jan" \in Range(gm) /\ "jan" \notin Range(gm)

(***************************************************************************)
(* C2.  Zero divisor: whenever some merged row has ExpectedGeneration = 0, *)
(* the run ends in an error, no report is offered, and no non-finite       *)
(* monthly or overall efficiency is written into the document.             *)
(***************************************************************************)
HasZeroExpected(s) ==
    /\ "ExpectedGeneration" \in df[s].cols
    /\ \E k \in 1..Len(df[s].rows) : df[s].rows[k]["ExpectedGeneration"] = Frac(0, 1)

NonFiniteWritten(s) ==
    \E k \in 1..Len(AllOps(s)) :
        \E n \in 1..Len(AllOps(s)[k].vals) : ~AllOps(s)[k].vals[n].fin

ZeroExpectedIsAnError ==
    \A s \in Sessions :
        HasZeroExpected(s) =>
            /\ ~NonFiniteWritten(s)
            /\ download[s] = <<>>
            /\ pc[s] = "done" => "error" \in Range(shown[s])

(***************************************************************************)
(* C3.  Empty join: when the merge yields no row, the run ends in an error *)
(* before any chart is rendered or any document is built, and no report is *)
(* offered.                                                                *)
(***************************************************************************)
EmptyJoinIsAnError ==
    \A s \in Sessions :
        (Merged(s) /\ df[s].rows = <<>>) =>
            /\ fig[s] = NoChart /\ fig_eff[s] = NoChart
            /\ AllOps(s) = <<>>
            /\ download[s] = <<>>
            /\ pc[s] = "done" => "error" \in Range(shown[s])

(***************************************************************************)
(* C4.  Required columns: if "Month" is absent from either sheet,          *)
(* "Irradiance" from the irradiance sheet or "ActualGeneration" from the   *)
(* generation sheet, the run ends with an error and no report is offered,  *)
(* whatever other columns the two sheets hold.                             *)
(***************************************************************************)
MissingRequiredColumn(s) ==
    /\ widgets[s].irradiance_file.kind = "csv"
    /\ widgets[s].generation_file.kind = "csv"
    /\ \/ "Month" \notin widgets[s].irradiance_file.cols
       \/ "Month" \notin widgets[s].generation_file.cols
       \/ "Irradiance" \notin widgets[s].irradiance_file.cols
       \/ "ActualGeneration" \notin widgets[s].generation_file.cols

MissingColumnIsAnError ==
    \A s \in Sessions :
        MissingRequiredColumn(s) =>
            /\ download[s] = <<>>
            /\ pc[s] = "done" => "error" \in Range(shown[s])

(***************************************************************************)
(* C5.  Pagination: the table loop draws every merged row exactly once     *)
(* over all pages, in merged order (while the loop runs: the rows before   *)
(* the loop index), and a table of more rows than the first page takes     *)
(* makes a document of more than one page.                                 *)
(***************************************************************************)
EveryRowDrawnOnce ==
    \A s \in Sessions :
        TableBegun(s) =>
            LET months == Column(df[s], "Month")
                done == IF pc[s] = "table" THEN i[s] - 1 ELSE Len(months)
            IN  /\ DrawnMonths(s) = SubSeq(months, 1, done)
                /\ (TableEnded(s) /\ Len(months) > FirstPageCapacity) => PageCount(s) > 1
                /\ download[s] # <<>> =>
                      /\ SelectSeq(Concat(download[s][1]), IsRowOp)
                            = SelectSeq(AllOps(s), IsRowOp)
                      /\ Len(months) > FirstPageCapacity => Len(download[s][1]) > 1

\* a delivered document whose table went over two page breaks
PaginationWitness ==
    \E s \in Sessions :
        /\ download[s] # <<>>
        /\ Len(df[s].rows) > FirstPageCapacity
        /\ Len(download[s][1]) = 3
        /\ \A p \in 1..2 : \E k \in 1..Len(download[s][1][p]) : IsRowOp(download[s][1][p][k])

(***************************************************************************)
(* C6.  Stage order and delivery: the stages complete in the order load,   *)
(* compute, render, build, deliver; the download is offered only after all *)
(* earlier stages completed without an error, and carries the saved        *)
(* document; once a message of failure is shown (an error, or the warning  *)
(* for a missing upload) the run is over and nothing is offered.           *)
(***************************************************************************)
StageOrder == <<"load", "compute", "render", "build", "deliver">>

Failed(s) == "error" \in Range(shown[s]) \/ "warning" \in Range(shown[s])

StagesInOrderAndNoPartialDelivery ==
    \A s \in Sessions :
        /\ Len(stages[s]) <= Len(StageOrder)
        /\ stages[s] = SubSeq(StageOrder, 1, Len(stages[s]))
        /\ download[s] # <<>> =>
              /\ stages[s] = StageOrder
              /\ ~Failed(s)
              /\ download[s] = <<pdf_data[s]>>
              /\ c[s].page = <<>> /\ pdf_data[s] = c[s].pages
        /\ Failed(s) => (pc[s] = "done" /\ download[s] = <<>>)
        /\ (pc[s] # "idle"
              /\ (widgets[s].irradiance_file.kind = "none"
                    \/ widgets[s].generation_file.kind = "none")) =>
              (Failed(s) /\ stages[s] = <<>>)

\* a run that failed while the document was being built: pages are drawn, none offered
FailedBuildWitness ==
    \E s \in Sessions :
        /\ pc[s] = "done"
        /\ "error" \in Range(shown[s])
        /\ stages[s] = <<"load", "compute", "render">>
        /\ \E k \in 1..Len(c[s].page) : IsImageOp(c[s].page[k])
        /\ download[s] = <<>>

(***************************************************************************)
(* C7.  Derivation and aggregates: for every non-empty merged table, each  *)
(* row's ExpectedGeneration is (efficiency/100) x panels x (length x       *)
(* width) x irradiance, total_expected and total_actual are the sums of    *)
(* the rows' expected and actual generation, and the overall efficiency,   *)
(* as computed and as printed in the document, is 100 x total_actual /     *)
(* total_expected: the ratio of the sums.                                  *)
(***************************************************************************)
\* efficiency/100 x panels x length x width as one fraction: numerator, denominator
FactorNum(s) ==
    widgets[s].config.efficiency.num * widgets[s].config.num_panels
        * widgets[s].config.length.num * widgets[s].config.width.num
FactorDen(s) ==
    100 * widgets[s].config.efficiency.den
        * widgets[s].config.length.den * widgets[s].config.width.den

OverallLine(s) ==
    LET Is(o) == o.txt = "Overall Efficiency"
    IN  SelectSeq(AllOps(s), Is)

TotalsAreRatioOfSums ==
    \A s \in Sessions :
        (Computed(s) /\ df[s].rows # <<>>) =>
            LET irr == Column(df[s], "Irradiance")
                act == Column(df[s], "ActualGeneration")
                ratio == Frac(100 * SumInts(act) * FactorDen(s), FactorNum(s) * SumInts(irr))
            IN  /\ \A k \in 1..Len(df[s].rows) :
                      df[s].rows[k]["ExpectedGeneration"]
                          = Frac(FactorNum(s) * irr[k], FactorDen(s))
                /\ total_expected[s] = Frac(FactorNum(s) * SumInts(irr), FactorDen(s))
                /\ total_actual[s] = Frac(SumInts(act), 1)
                /\ overall_eff[s] = ratio
                /\ TableBegun(s) =>
                      (Len(OverallLine(s)) = 1 /\ OverallLine(s)[1].vals = <<Format(ratio, 2)>>)

\* the sheet of Jan (150, 500) and Feb (160, 520) under the default panels:
\* 432.0 and 460.8 expected, 892.8 in total, 1020 actual, 114.25 % printed,
\* which is not the mean (114.29 %) of the monthly 115.74 % and 112.85 %
RatioOfSumsWitness ==
    \E s \in Sessions :
        /\ TableBegun(s)
        /\ Column(df[s], "Month") = <<"Jan", "Feb">>
        /\ Column(df[s], "ExpectedGeneration") = <<Frac(432, 1), Frac(4608, 10)>>
        /\ total_expected[s] = Frac(8928, 10)
        /\ total_actual[s] = Frac(1020, 1)
        /\ Format(df[s].rows[1]["MonthlyEfficiency"], 2).val = 11574
        /\ Format(df[s].rows[2]["MonthlyEfficiency"], 2).val = 11285
        /\ OverallLine(s)[1].vals[1] = [fin |-> TRUE, val |-> 11425, dec |-> 2]

(***************************************************************************)
(* C8.  Parallel runs: every chart image embedded in a session's document  *)
(* is the chart rendered from that session's own merged rows.              *)
(***************************************************************************)
OwnChartsEmbedded ==
    \A s \in Sessions :
        \A k \in 1..Len(AllOps(s)) :
            LET o == AllOps(s)[k]
            IN  IsImageOp(o) =>
                   o.img = (IF o.txt = img_path THEN fig[s] ELSE fig_eff[s])

(***************************************************************************)
(* C9.  Image placement: both chart images (300 pt high) lie within the    *)
(* page: bottom edge at or above 0, top edge at or below the page height.  *)
(***************************************************************************)
ImagesWithinPage ==
    \A s \in Sessions :
        \A k \in 1..Len(AllOps(s)) :
            LET o == AllOps(s)[k]
            IN  IsImageOp(o) => (o.y >= 0 /\ o.y + Pt(300) <= height)

(***************************************************************************)
(* C10.  Cursor of the table: every table line is drawn at a cursor y with *)
(* 100 pt <= y <= height - 50 pt, and so is the cursor before each further *)
(* row; a row after which the cursor would be below 100 pt is the last     *)
(* thing on its page, that page is finished, and the next page's first     *)
(* line is drawn at height - 50 pt.                                        *)
(***************************************************************************)
InTableBand(at) == Pt(100) <= at /\ at <= height - Pt(50)

\* the pages of the document in order, the open page last
PagesOf(s) == Append(c[s].pages, c[s].page)

CursorStaysAboveMargin ==
    \A s \in Sessions :
        TableBegun(s) =>
            /\ pc[s] = "table" => InTableBand(y[s])
            /\ \A p \in 1..Len(PagesOf(s)) :
                  LET page == PagesOf(s)[p]
                  IN  \A k \in 1..Len(page) :
                         IsRowOp(page[k]) =>
                            /\ InTableBand(page[k].y)
                            /\ (k = 1 /\ p > 1) => page[k].y = height - Pt(50)
                            /\ k > 1 /\ IsRowOp(page[k - 1]) =>
                                  page[k].y = page[k - 1].y - Pt(15)
                            /\ page[k].y - Pt(15) < Pt(100) =>
                                  (k = Len(page) /\ p <= Len(c[s].pages))
            /\ (pc[s] = "table" \/ pc[s] = "savefig") =>
                  \A p \in 1..Len(c[s].pages) :
                      LET last == c[s].pages[p][Len(c[s].pages[p])]
                      IN  IsRowOp(last) /\ last.y - Pt(15) < Pt(100)

\* the loop is on its second page, about to draw the page's first line
PageBreakWitness ==
    \E s \in Sessions :
        /\ pc[s] = "table"
        /\ Len(c[s].pages) = 1 /\ c[s].page = <<>>
        /\ y[s] = height - Pt(50)
        /\ IsRowOp(c[s].pages[1][Len(c[s].pages[1])])
        /\ c[s].pages[1][Len(c[s].pages[1])].y - Pt(15) < Pt(100)

====
